---- MODULE Spec2Model ----
(***************************************************************************)
(* Discord Reminder for Obsidian (src/src/main.ts).                        *)
(*                                                                         *)
(* Strings are sequences of one-character strings.  A well-formed marker   *)
(* `(discord@YYYY-MM-DD HH:MM)` is kept as one lexeme of the text (the     *)
(* regular expression of extractTasks matches it as a whole or not at      *)
(* all); everything else is a character.                                   *)
(***************************************************************************)
EXTENDS Integers, Sequences, FiniteSets, Bags, TLC

VARIABLES
    \* ---- the plugin instance (DiscordReminder) and its environment ----
    phase,          \* "off": no plugin instance; "running": onload has run
    settings,       \* this.settings
    notifiedTasks,  \* this.notifiedTasks (Set<string>); while "off", the
                    \* set of the instance that stopped
    taskCache,      \* this.taskCache (Set<Task>, objects in insertion order)
    data,           \* the plugin's data.json, as loadData() returns it
    writes,         \* bag of saveData() arguments whose write has not settled
    scanning,       \* files whose addToTaskCache call of the startup scan
                    \* (initializeTaskCache) still waits on vault.read
    reads,          \* addToTaskCache calls of handleFileChange waiting on
                    \* vault.read, per file
    docs,           \* the vault: file -> text
    now,            \* the wall clock, in sweep periods, up to Horizon
    timer,          \* sweep periods left until the interval timer fires
    \* ---- observations ----
    outcome,        \* identity -> how its latest sendNotification went:
                    \* "none" (never invoked), "skipped" (no webhook URL),
                    \* "pending" (requestUrl not settled), "delivered", "failed"
    calls,          \* the sendNotification calls of the step just taken
    \* ---- the parser, run on its own ----
    parseInput,     \* a document text
    parseOutput,    \* what extractTasks returned for it
    parseDone

sysVars == <<phase, settings, notifiedTasks, taskCache, data, writes, scanning,
             reads, docs, now, timer, outcome, calls>>
parseVars == <<parseInput, parseOutput, parseDone>>
vars == <<sysVars, parseVars>>

----------------------------------------------------------------------------
(* Bounds *)

MaxPieces == 4
MaxCache == 2
\* un-settled promises (vault.read, saveData, requestUrl) at any one time
MaxPending == 2

\* the period of the interval timer (3 * 60 * 1000 ms), the unit of the clock
SweepInterval == 1

----------------------------------------------------------------------------
(* Strings *)

Whitespace == {" ", "\n", "\t"}
LineTerminators == {"\n"}

RECURSIVE TrimStart(_)
TrimStart(s) ==
    IF s # <<>> /\ Head(s) \in Whitespace THEN TrimStart(Tail(s)) ELSE s

RECURSIVE TrimEnd(_)
TrimEnd(s) ==
    IF s # <<>> /\ s[Len(s)] \in Whitespace
    THEN TrimEnd(SubSeq(s, 1, Len(s) - 1))
    ELSE s

\* String.prototype.trim
Trim(s) == TrimEnd(TrimStart(s))

\* String.prototype.startsWith
StartsWith(s, p) == Len(s) >= Len(p) /\ SubSeq(s, 1, Len(p)) = p

\* the positions at which p occurs in s
Occurrences(s, p) ==
    {i \in 1..(Len(s) - Len(p) + 1) : SubSeq(s, i, i + Len(p) - 1) = p}

Min(S) == CHOOSE x \in S : \A y \in S : x <= y

\* a replace that removes every occurrence (String.prototype.replaceAll)
RECURSIVE ReplaceAll(_, _, _)
ReplaceAll(s, p, r) ==
    IF Occurrences(s, p) = {} THEN s
    ELSE LET i == Min(Occurrences(s, p))
         IN  SubSeq(s, 1, i - 1) \o r
               \o ReplaceAll(SubSeq(s, i + Len(p), Len(s)), p, r)

\* String.prototype.replace with a string pattern: the first occurrence only
Replace(s, p, r) ==
    IF Occurrences(s, p) = {} THEN s
    ELSE LET i == Min(Occurrences(s, p))
         IN  SubSeq(s, 1, i - 1) \o r \o SubSeq(s, i + Len(p), Len(s))

UncheckedPrefix == <<"-", " ", "[", " ", "]">>
CheckedPrefix == <<"-", " ", "[", "x", "]">>

----------------------------------------------------------------------------
(* Dates *)

\* the lexemes the marker grammar \(discord@\d{4}-\d{2}-\d{2} \d{2}:\d{2}\) accepts
Markers == {"(discord@2025-01-01 09:00)",
            "(discord@2025-01-01 09:03)",
            "(discord@2024-13-40 25:99)"}

\* a lexeme the grammar rejects: plain characters to the regular expression
MalformedMarker == "(discord@2025-1-1 9:00)"

InvalidDate == [valid |-> FALSE, time |-> 0]

\* new Date(match[3]): the payload read as local time, in sweep periods
\* since 2025-01-01 08:57 local; Invalid Date when it is no calendar date
NewDate(marker) ==
    CASE marker = "(discord@2025-01-01 09:00)" -> [valid |-> TRUE, time |-> 1]
      [] marker = "(discord@2025-01-01 09:03)" -> [valid |-> TRUE, time |-> 2]
      [] OTHER -> InvalidDate

\* Date.prototype.toISOString of a valid date (UTC+1 local zone)
toISOString(d) ==
    CASE d.time = 1 -> "2025-01-01T08:00:00.000Z"
      [] d.time = 2 -> "2025-01-01T08:03:00.000Z"
      [] OTHER -> "1970-01-01T00:00:00.000Z"

\* the last due time of the model: every later instant compares with the
\* due times as Horizon does
Horizon ==
    CHOOSE t \in {NewDate(m).time : m \in Markers} :
        \A m \in Markers : NewDate(m).time <= t

----------------------------------------------------------------------------
(* extractTasks *)

\* match starts of a `.` that also matches line terminators (the s flag)
MatchStartsDotAll(text, pos) ==
    {i \in pos..Len(text) :
        \E m \in i..Len(text) :
            /\ text[m] \in Markers
            /\ \A j \in i..(m - 1) : text[j] \notin Markers}

\* One regex.exec from position pos (lastIndex + 1): the leftmost start i
\* from which lazily extended `.` characters (no line terminator) reach a
\* marker; the marker reached is the first one at or after i.
MatchStarts(text, pos) ==
    {i \in pos..Len(text) :
        \E m \in i..Len(text) :
            /\ text[m] \in Markers
            /\ \A j \in i..(m - 1) :
                  text[j] \notin Markers /\ text[j] \notin LineTerminators}

MatchAt(text, i) ==
    LET m == Min({k \in i..Len(text) : text[k] \in Markers})
    IN  [start |-> i, marker |-> m, group1 |-> SubSeq(text, i, m - 1)]

\* the successive matches of the while loop (regex has the g flag)
RECURSIVE RegexMatches(_, _)
RegexMatches(text, pos) ==
    IF MatchStarts(text, pos) = {} THEN <<>>
    ELSE LET mt == MatchAt(text, Min(MatchStarts(text, pos)))
         IN  <<mt>> \o RegexMatches(text, mt.marker + 1)

\* lines 74-78
ReminderText(group1) ==
    LET reminderText == Trim(group1)
    IN  IF StartsWith(reminderText, UncheckedPrefix)
        THEN Trim(Replace(reminderText, UncheckedPrefix, <<>>))
        ELSE reminderText

extractTasks(content) ==
    LET ms == RegexMatches(content, 1)
    IN  [k \in 1..Len(ms) |->
            [content |-> ReminderText(ms[k].group1),
             dueDateTime |-> NewDate(content[ms[k].marker])]]

----------------------------------------------------------------------------
(* The vault and the persisted data *)

Files == {"a.md", "c.txt"}

\* TFile.extension
Extension(f) == IF f = "c.txt" THEN "txt" ELSE "md"

\* app.vault.getMarkdownFiles()
getMarkdownFiles == {f \in Files : Extension(f) = "md"}

TextPlain == <<"a">>
TextA == UncheckedPrefix \o <<" ", "a", "(discord@2025-01-01 09:00)">>
TextB == <<"b", "(discord@2024-13-40 25:99)">>
TextC == <<"c", "(discord@2025-01-01 09:03)">>

\* the texts a note takes in the model
NoteTexts == {TextPlain, TextA, TextB, TextC}

\* the values typed into the Webhook-URL field: blank, a URL
Urls == {<<" ">>, <<"h">>}

DEFAULT_SETTINGS == [webhookUrl |-> <<>>]

\* loadData() when there is no data.json: null
NoData == <<>>

\* Object.assign({}, target, source): source's own keys override
ObjectAssign(target, source) == source @@ target

Range(s) == {s[i] : i \in DOMAIN s}

\* `${content}-${dueDateTime.toISOString()}`
TaskId(content, dueDateTime) == content \o <<"-">> \o <<toISOString(dueDateTime)>>

\* every task a note of the model can hold, and their identities
AllTasks == UNION {Range(extractTasks(t)) : t \in NoteTexts}
ValidTasks == {t \in AllTasks : t.dueDateTime.valid}
Ids == {TaskId(t.content, t.dueDateTime) : t \in ValidTasks}

\* the number of promises not yet settled
Pending(s, r, w, o) ==
    LET RECURSIVE Sum(_)
        Sum(S) == IF S = {} THEN 0
                  ELSE LET f == CHOOSE x \in S : TRUE IN r[f] + Sum(S \ {f})
    IN  Cardinality(s) + Sum(DOMAIN r) + BagCardinality(w)
          + Cardinality({id \in DOMAIN o : o[id] = "pending"})

----------------------------------------------------------------------------
(* checkTask and what it calls, as steps on the instance's fields *)

\* line 118: saveData({ notifiedTasks: [...this.notifiedTasks] }), not awaited
saveNotifiedTasks(st) ==
    [st EXCEPT !.writes = @ (+) SetToBag({[notifiedTasks |-> st.notifiedTasks]})]

\* line 124
IsBlank(webhookUrl) == webhookUrl = <<>> \/ Trim(webhookUrl) = <<>>

\* lines 121-173, up to the await on requestUrl
sendNotification(st, reminderText, dateTime) ==
    LET id == reminderText \o <<"-">> \o <<dateTime>>
        called == [st EXCEPT !.calls =
                      Append(@, [id |-> id, again |-> st.outcome[id] # "none"])]
    IN  IF IsBlank(settings.webhookUrl)
        THEN [called EXCEPT !.outcome[id] = "skipped"]
        ELSE [called EXCEPT !.outcome[id] = "pending"]

\* a due test that never holds a task back
IsDueAlways(dueDateTime, t) == TRUE

\* line 91: dueDateTime <= now
IsDue(dueDateTime, t) == dueDateTime.time <= t

\* a checkTask that leaves the in-memory add to the completion of the write
checkTaskAddAfterSave(st, content, dueDateTime) ==
    IF ~dueDateTime.valid THEN [st EXCEPT !.threw = TRUE]
    ELSE LET taskId == TaskId(content, dueDateTime)
         IN  IF IsDue(dueDateTime, now) /\ taskId \notin st.notifiedTasks
             THEN sendNotification(
                    [st EXCEPT !.writes = @ (+) SetToBag(
                        {[notifiedTasks |-> st.notifiedTasks \cup {taskId}]})],
                    content, toISOString(dueDateTime))
             ELSE st

\* lines 87-96; toISOString of an Invalid Date throws RangeError (line 89)
checkTask(st, content, dueDateTime) ==
    IF ~dueDateTime.valid THEN [st EXCEPT !.threw = TRUE]
    ELSE LET taskId == TaskId(content, dueDateTime)
         IN  IF IsDue(dueDateTime, now) /\ taskId \notin st.notifiedTasks
             THEN sendNotification(
                    saveNotifiedTasks([st EXCEPT !.notifiedTasks = @ \cup {taskId}]),
                    content, toISOString(dueDateTime))
             ELSE st

\* taskCache.forEach: insertion order; a throw ends the iteration
RECURSIVE ForEachTask(_, _)
ForEachTask(st, i) ==
    IF i > Len(taskCache) \/ st.threw THEN st
    ELSE ForEachTask(checkTask(st, taskCache[i].content, taskCache[i].dueDateTime),
                     i + 1)

SweepResult ==
    ForEachTask([notifiedTasks |-> notifiedTasks, writes |-> writes,
                 outcome |-> outcome, calls |-> <<>>, threw |-> FALSE], 1)

----------------------------------------------------------------------------
(* Actions *)

SysInit ==
    /\ phase = "off"
    /\ settings = DEFAULT_SETTINGS
    /\ notifiedTasks = {}
    /\ taskCache = <<>>
    /\ data = NoData
    /\ writes = EmptyBag
    /\ scanning = {}
    /\ reads = [f \in getMarkdownFiles |-> 0]
    /\ docs = [f \in getMarkdownFiles |-> TextPlain]
    /\ now = 0
    /\ timer = SweepInterval
    /\ outcome = [id \in Ids |-> "none"]
    /\ calls = <<>>

Init ==
    /\ SysInit
    /\ parseInput = <<>>
    /\ parseOutput = <<>>
    /\ parseDone = FALSE

\* lines 98-104
loadSettings(loaded) == ObjectAssign(DEFAULT_SETTINGS, loaded)

\* lines 110-115, on a fresh instance (line 18)
loadNotifiedTasks(savedTasks) ==
    IF savedTasks # NoData /\ "notifiedTasks" \in DOMAIN savedTasks
    THEN savedTasks.notifiedTasks
    ELSE {}

\* lines 21-48: a new instance loads, arms the interval, then starts the scan
onload ==
    /\ phase = "off"
    /\ phase' = "running"
    /\ settings' = loadSettings(data)
    /\ notifiedTasks' = loadNotifiedTasks(data)
    /\ timer' = SweepInterval
    /\ taskCache' = <<>>
    /\ scanning' = getMarkdownFiles
    /\ reads' = [f \in getMarkdownFiles |-> 0]
    /\ calls' = <<>>
    /\ UNCHANGED <<data, writes, docs, now, outcome, parseVars>>

\* the user edits a file and metadataCache "changed" calls handleFileChange
\* (lines 50-56, up to the await on vault.read).  Only the notes' texts are
\* kept: no other file is ever read.
handleFileChange(f, text) ==
    /\ phase = "running"
    /\ IF Extension(f) # "md" THEN UNCHANGED <<docs, reads>>
       ELSE /\ text # docs[f]
            /\ docs' = [docs EXCEPT ![f] = text]
            /\ Pending(scanning, reads, writes, outcome) < MaxPending
            /\ reads' = [reads EXCEPT ![f] = @ + 1]
    /\ calls' = <<>>
    /\ UNCHANGED <<phase, settings, notifiedTasks, taskCache, data, writes,
                   scanning, now, timer, outcome, parseVars>>

\* lines 56-58: vault.read settles and the tasks are added to the Set; the
\* call came from initializeTaskCache (lines 41-48) or from handleFileChange
addToTaskCache(f, fromScan) ==
    /\ phase = "running"
    /\ Extension(f) = "md"
    /\ IF fromScan
       THEN /\ f \in scanning
            /\ scanning' = scanning \ {f}
            /\ UNCHANGED reads
       ELSE /\ reads[f] > 0
            /\ reads' = [reads EXCEPT ![f] = @ - 1]
            /\ UNCHANGED scanning
    /\ LET tasks == extractTasks(docs[f])
       IN  /\ Len(taskCache) + Len(tasks) <= MaxCache
           /\ taskCache' = taskCache \o tasks
    /\ calls' = <<>>
    /\ UNCHANGED <<phase, settings, notifiedTasks, data, writes, docs, now,
                   timer, outcome, parseVars>>

\* a sweep that also drops the tasks it has fired from the cache
checkTasksEvicting ==
    /\ phase = "running"
    /\ timer = 0
    /\ Pending(scanning, reads, SweepResult.writes, SweepResult.outcome) <= MaxPending
    /\ notifiedTasks' = SweepResult.notifiedTasks
    /\ writes' = SweepResult.writes
    /\ outcome' = SweepResult.outcome
    /\ calls' = SweepResult.calls
    /\ timer' = SweepInterval
    /\ taskCache' = SelectSeq(taskCache,
          LAMBDA t : ~t.dueDateTime.valid
                     \/ TaskId(t.content, t.dueDateTime) \notin notifiedTasks')
    /\ UNCHANGED <<phase, settings, data, scanning, reads, docs, now, parseVars>>

\* lines 61-66, fired by the interval timer of line 35
checkTasks ==
    /\ phase = "running"
    /\ timer = 0
    /\ Pending(scanning, reads, SweepResult.writes, SweepResult.outcome) <= MaxPending
    /\ notifiedTasks' = SweepResult.notifiedTasks
    /\ writes' = SweepResult.writes
    /\ outcome' = SweepResult.outcome
    /\ calls' = SweepResult.calls
    /\ timer' = SweepInterval
    /\ UNCHANGED <<phase, settings, taskCache, data, scanning, reads, docs, now,
                   parseVars>>

\* lines 196-199 and 106-108: the settings tab's onChange, then saveSettings
saveSettings(value) ==
    /\ phase = "running"
    /\ value # settings.webhookUrl
    /\ Pending(scanning, reads, writes, outcome) < MaxPending
    /\ settings' = [settings EXCEPT !.webhookUrl = value]
    /\ writes' = writes (+) SetToBag({settings'})
    /\ calls' = <<>>
    /\ UNCHANGED <<phase, notifiedTasks, taskCache, data, scanning, reads, docs,
                   now, timer, outcome, parseVars>>

\* a saveData() call completes: data.json is replaced by its argument
saveData(w) ==
    /\ BagIn(w, writes)
    /\ data' = w
    /\ writes' = writes (-) SetToBag({w})
    /\ calls' = <<>>
    /\ UNCHANGED <<phase, settings, notifiedTasks, taskCache, scanning, reads,
                   docs, now, timer, outcome, parseVars>>

\* a rejected write that rolls the in-memory set back to what is persisted
saveDataRejectsRollback(w) ==
    /\ BagIn(w, writes)
    /\ writes' = writes (-) SetToBag({w})
    /\ notifiedTasks' = IF data # NoData /\ "notifiedTasks" \in DOMAIN data
                        THEN notifiedTasks \cap data.notifiedTasks
                        ELSE {}
    /\ calls' = <<>>
    /\ UNCHANGED <<phase, settings, taskCache, data, scanning, reads, docs, now,
                   timer, outcome, parseVars>>

\* a saveData() call rejects (disk full, file locked): data.json keeps its
\* content; neither caller (lines 107, 118) is awaited by code that reacts
saveDataRejects(w) ==
    /\ BagIn(w, writes)
    /\ writes' = writes (-) SetToBag({w})
    /\ calls' = <<>>
    /\ UNCHANGED <<phase, settings, notifiedTasks, taskCache, data, scanning,
                   reads, docs, now, timer, outcome, parseVars>>

\* lines 158-169: requestUrl resolves with a status
requestUrlResolves(id, status) ==
    /\ phase = "running"
    /\ outcome[id] = "pending"
    /\ outcome' = [outcome EXCEPT ![id] = IF status # 200 THEN "failed"
                                          ELSE "delivered"]
    /\ calls' = <<>>
    /\ UNCHANGED <<phase, settings, notifiedTasks, taskCache, data, writes,
                   scanning, reads, docs, now, timer, parseVars>>

\* a catch block that takes the identity back out of the notified set
requestUrlRejectsRollback(id) ==
    /\ phase = "running"
    /\ outcome[id] = "pending"
    /\ outcome' = [outcome EXCEPT ![id] = "failed"]
    /\ notifiedTasks' = notifiedTasks \ {id}
    /\ calls' = <<>>
    /\ UNCHANGED <<phase, settings, taskCache, data, writes, scanning, reads,
                   docs, now, timer, parseVars>>

\* lines 170-172: requestUrl rejects
requestUrlRejects(id) ==
    /\ phase = "running"
    /\ outcome[id] = "pending"
    /\ outcome' = [outcome EXCEPT ![id] = "failed"]
    /\ calls' = <<>>
    /\ UNCHANGED <<phase, settings, notifiedTasks, taskCache, data, writes,
                   scanning, reads, docs, now, timer, parseVars>>

\* the application quits (or the plugin is disabled) with no write and no
\* request pending; the instance's timer and reads are gone with it
Restart ==
    /\ phase = "running"
    /\ writes = EmptyBag
    /\ \A id \in Ids : outcome[id] # "pending"
    /\ phase' = "off"
    /\ settings' = DEFAULT_SETTINGS
    /\ taskCache' = <<>>
    /\ scanning' = {}
    /\ reads' = [f \in getMarkdownFiles |-> 0]
    /\ timer' = SweepInterval
    /\ calls' = <<>>
    /\ UNCHANGED <<notifiedTasks, data, writes, docs, now, outcome, parseVars>>

\* one sweep period passes
Tick ==
    /\ now < Horizon \/ (phase = "running" /\ timer > 0)
    /\ now' = IF now < Horizon THEN now + 1 ELSE now
    /\ timer' = IF phase = "running" /\ timer > 0 THEN timer - 1 ELSE timer
    /\ calls' = <<>>
    /\ UNCHANGED <<phase, settings, notifiedTasks, taskCache, data, writes,
                   scanning, reads, docs, outcome, parseVars>>

Next ==
    \/ onload
    \/ \E f \in Files : \E text \in NoteTexts : handleFileChange(f, text)
    \/ \E f \in Files : \E fromScan \in BOOLEAN : addToTaskCache(f, fromScan)
    \/ checkTasks
    \/ \E value \in Urls : saveSettings(value)
    \/ \E w \in BagToSet(writes) : saveData(w)
    \/ \E id \in Ids : \E status \in {200, 500} : requestUrlResolves(id, status)
    \/ \E id \in Ids : requestUrlRejects(id)
    \/ Restart
    \/ Tick

Spec == Init /\ [][Next]_vars

\* the plugin with writes of data.json that can fail
NextWriteFailure ==
    \/ Next
    \/ \E w \in BagToSet(writes) : saveDataRejects(w)

SpecWriteFailure == Init /\ [][NextWriteFailure]_vars

\* the runs in which the Webhook-URL field is never edited: no saveSettings,
\* and, the URL staying unset, no requestUrl
NextNoSettingsSave ==
    \/ onload
    \/ \E f \in Files : \E text \in NoteTexts : handleFileChange(f, text)
    \/ \E f \in Files : \E fromScan \in BOOLEAN : addToTaskCache(f, fromScan)
    \/ checkTasks
    \/ \E w \in BagToSet(writes) : saveData(w)
    \/ Restart
    \/ Tick

SpecNoSettingsSave == Init /\ [][NextNoSettingsSave]_vars

----------------------------------------------------------------------------
(* The parser on its own *)

Pieces == {UncheckedPrefix, CheckedPrefix, <<"a">>, <<" ">>, <<"\n">>,
           <<"(discord@2025-01-01 09:00)">>, <<"(discord@2025-01-01 09:03)">>,
           <<MalformedMarker>>}

RECURSIVE Flatten(_)
Flatten(ps) == IF ps = <<>> THEN <<>> ELSE Head(ps) \o Flatten(Tail(ps))

ParseTexts == {Flatten(ps) : ps \in UNION {[1..n -> Pieces] : n \in 0..MaxPieces}}

ParseInit ==
    /\ SysInit
    /\ parseInput \in ParseTexts
    /\ parseOutput = <<>>
    /\ parseDone = FALSE

ParseExtract ==
    /\ ~parseDone
    /\ parseOutput' = extractTasks(parseInput)
    /\ parseDone' = TRUE
    /\ UNCHANGED <<parseInput, sysVars>>

ParseNext == ParseExtract

SpecParse == ParseInit /\ [][ParseNext]_vars

----------------------------------------------------------------------------
(* Properties of the plugin *)

\* a step of checkTasks: the interval timer fires and is re-armed
SweepStep ==
    phase = "running" /\ phase' = "running" /\ timer = 0 /\ timer' = SweepInterval

\* the number of sendNotification calls for id in a sequence of calls
CallsFor(cs, id) == Cardinality({k \in DOMAIN cs : cs[k].id = id})

\* C1: sendNotification is invoked at most once for every task identity,
\* over any run of sweeps, document changes, settings saves and restarts:
\* no call of a step is for an identity that was already dispatched.
C1_AtMostOnce == \A k \in DOMAIN calls : ~calls[k].again

\* C2: a task whose due time is strictly later than the current time is
\* neither in the notified set nor has any notification been dispatched
\* for it, in any state (so no sweep before that time notifies or records it).
C2_NotBeforeDue ==
    \A t \in ValidTasks :
        t.dueDateTime.time > now =>
            /\ TaskId(t.content, t.dueDateTime) \notin notifiedTasks
            /\ outcome[TaskId(t.content, t.dueDateTime)] = "none"
            /\ \A k \in DOMAIN calls : calls[k].id # TaskId(t.content, t.dueDateTime)

\* C2 witness: a sweep has just dispatched a due task while a task that is
\* not yet due sits in the cache, untouched.
C2_Witness ==
    /\ calls # <<>>
    /\ \E i \in DOMAIN taskCache :
          /\ taskCache[i].dueDateTime.valid
          /\ taskCache[i].dueDateTime.time > now
          /\ outcome[TaskId(taskCache[i].content, taskCache[i].dueDateTime)] = "none"

\* C3: for every task in the cache at the start of a sweep with
\* dueDateTime <= now whose identity is not in the notified set, that sweep
\* makes exactly one sendNotification call for the identity and records it
\* in the notified set.
C3_DueTasksFire ==
    [][SweepStep =>
        \A i \in DOMAIN taskCache :
            LET d == taskCache[i].dueDateTime
                id == TaskId(taskCache[i].content, d)
            IN  (d.valid /\ d.time <= now /\ id \notin notifiedTasks) =>
                    (CallsFor(calls', id) = 1 /\ id \in notifiedTasks')]_vars

\* C4: every identity in the notified set before a restart is in the
\* in-memory notified set right after the next start's loadNotifiedTasks.
C4_RestartRecovery ==
    [][(phase = "off" /\ phase' = "running") =>
            notifiedTasks \subseteq notifiedTasks']_vars

\* C5: once the dispatcher has failed for an identity, the identity stays
\* in the notified set of the running plugin and no later sweep dispatches
\* a notification for it (its latest dispatch stays the failed one).
C5_FailedStaysFired ==
    [][\A id \in Ids :
          outcome[id] = "failed" =>
              /\ outcome'[id] = "failed"
              /\ (phase' = "running" => id \in notifiedTasks')]_vars

\* C6: with a blank webhook URL a sweep records every due un-fired task in
\* the notified set, issues the write of the set and makes no request for
\* it; and a task skipped this way is never dispatched later, whatever the
\* URL is set to afterwards.
C6_BlankUrlStillFires ==
    [][/\ (SweepStep /\ IsBlank(settings.webhookUrl)) =>
            \A i \in DOMAIN taskCache :
                LET d == taskCache[i].dueDateTime
                    id == TaskId(taskCache[i].content, d)
                IN  (d.valid /\ d.time <= now /\ id \notin notifiedTasks) =>
                        /\ id \in notifiedTasks'
                        /\ \E w \in BagToSet(writes') :
                              /\ "notifiedTasks" \in DOMAIN w
                              /\ id \in w.notifiedTasks
                        /\ outcome'[id] = "skipped"
       /\ \A id \in Ids : outcome[id] = "skipped" => outcome'[id] = "skipped"]_vars

\* C7: no sweep runs before the startup scan has finished populating the
\* cache: when checkTasks runs, no addToTaskCache call of
\* initializeTaskCache is still waiting.
C7_ScanBeforeSweep == [][SweepStep => scanning = {}]_vars

\* C10: once every document-change event has been fully processed, the
\* cache holds exactly the tasks of the latest parse of each document.
C10_ReplaceSemantics ==
    (phase = "running" /\ scanning = {} /\ \A f \in getMarkdownFiles : reads[f] = 0)
        => Range(taskCache) = UNION {Range(extractTasks(docs[f])) : f \in getMarkdownFiles}

\* C11: the task cache never holds two entries with the same identity
\* (same content and same due time).
C11_NoDuplicateIdentity ==
    \A i, j \in DOMAIN taskCache :
        (/\ taskCache[i].content = taskCache[j].content
         /\ taskCache[i].dueDateTime = taskCache[j].dueDateTime) => i = j

\* C12: within one plugin lifetime the in-memory notified set only grows:
\* no sweep, change event, settings save, failed or completed write, or
\* failed dispatch removes an identity from it.
C12_FiredIsAbsorbing ==
    [][(phase = "running" /\ phase' = "running") =>
            notifiedTasks \subseteq notifiedTasks']_vars

\* C12 witness: a dispatch has failed and a write of data.json has failed
\* (nothing was ever persisted), and the identity is still in the set.
C12_Witness ==
    /\ phase = "running"
    /\ data = NoData
    /\ writes = EmptyBag
    /\ \E id \in notifiedTasks : outcome[id] = "failed"

\* C13: checkTask adds the identity to the in-memory notified set in the
\* same step in which it calls sendNotification: every call of a sweep is
\* for an identity that was not in the set before the sweep, is in it after
\* the sweep and is called once, so a sweep that runs while the write for
\* an identity is still in flight does not notify that identity again.
C13_AddedBeforeDispatch ==
    [][SweepStep =>
        \A k \in DOMAIN calls' :
            /\ calls'[k].id \notin notifiedTasks
            /\ calls'[k].id \in notifiedTasks'
            /\ CallsFor(calls', calls'[k].id) = 1]_vars

\* C13 witness: a sweep has just run and dispatched another task while the
\* write for an identity fired by an earlier sweep is still in flight and
\* that identity's task is in the cache.
C13_Witness ==
    /\ calls # <<>>
    /\ \E i \in DOMAIN taskCache :
          /\ taskCache[i].dueDateTime.valid
          /\ LET id == TaskId(taskCache[i].content, taskCache[i].dueDateTime)
             IN  /\ id \in notifiedTasks
                 /\ CallsFor(calls, id) = 0
                 /\ \E w \in BagToSet(writes) :
                       /\ "notifiedTasks" \in DOMAIN w
                       /\ "webhookUrl" \notin DOMAIN w
                       /\ w.notifiedTasks = {id}
                 /\ ("notifiedTasks" \in DOMAIN data => id \notin data.notifiedTasks)

\* C14: in a run with no settings save, once every in-flight write has
\* completed, the persisted notifiedTasks list equals the in-memory notified
\* set (what loadNotifiedTasks would restore is the set), whatever order
\* the writes complete in.
C14_WriteThrough ==
    (phase = "running" /\ writes = EmptyBag) =>
        loadNotifiedTasks(data) = notifiedTasks

\* C15: when a write of the notified set fails (it leaves the writes in
\* flight and data.json keeps its content), the in-memory notified set is
\* unchanged and still holds the identities of that write, each of which
\* has been passed to sendNotification; and no sweep of the same plugin
\* instance calls sendNotification for an identity in the in-memory set.
C15_FailedWriteKeepsGuard ==
    [][/\ \A w \in BagToSet(writes) :
            (/\ writes' = writes (-) SetToBag({w})
             /\ data' = data
             /\ "webhookUrl" \notin DOMAIN w) =>
                /\ notifiedTasks' = notifiedTasks
                /\ w.notifiedTasks \subseteq notifiedTasks'
                /\ \A id \in w.notifiedTasks : outcome'[id] # "none"
       /\ SweepStep =>
            \A k \in DOMAIN calls' : calls'[k].id \notin notifiedTasks]_vars

\* C15 witness: no write has ever reached data.json and none is pending
\* except the one of the last sweep, so the write for an identity fired by
\* an earlier sweep has failed; that identity is still in the set, its task
\* is in the cache, and the last sweep dispatched another task, not it.
C15_Witness ==
    /\ phase = "running"
    /\ data = NoData
    /\ calls # <<>>
    /\ \E i \in DOMAIN taskCache :
          /\ taskCache[i].dueDateTime.valid
          /\ LET id == TaskId(taskCache[i].content, taskCache[i].dueDateTime)
             IN  /\ id \in notifiedTasks
                 /\ outcome[id] # "none"
                 /\ CallsFor(calls, id) = 0
                 /\ \A w \in BagToSet(writes) : w.notifiedTasks # {id}
                 /\ BagCardinality(writes) = 1

\* C16: while the plugin runs, a step of a change event or of the startup
\* scan (the vault, the pending reads or the task cache change) leaves the
\* notified set, data.json, the writes in flight and the settings
\* unchanged; the notified set changes only in a sweep; and a sweep leaves
\* the task cache unchanged.
C16_Frame ==
    [][(phase = "running" /\ phase' = "running") =>
          /\ (\/ taskCache' # taskCache
              \/ docs' # docs
              \/ scanning' # scanning
              \/ reads' # reads) =>
                 UNCHANGED <<notifiedTasks, data, writes, settings>>
          /\ notifiedTasks' # notifiedTasks => SweepStep
          /\ SweepStep => taskCache' = taskCache]_vars

\* C16 witness: a sweep has just fired a task of a non-empty cache, filled
\* by the scan or a change event, while data.json holds saved settings.
C16_Witness ==
    /\ phase = "running"
    /\ calls # <<>>
    /\ \E i \in DOMAIN taskCache :
          /\ taskCache[i].dueDateTime.valid
          /\ CallsFor(calls, TaskId(taskCache[i].content, taskCache[i].dueDateTime)) = 1
    /\ data # NoData
    /\ "webhookUrl" \in DOMAIN data

\* C17: the persisted webhook URL is independent of the persisted notified
\* set: once data.json holds a webhook URL, a write that changes data.json
\* leaves a webhook URL in it (only a settings save replaces it), so the
\* URL is still loaded after a restart.
C17_UrlSurvivesNotifiedWrite ==
    [][(data # NoData /\ "webhookUrl" \in DOMAIN data) =>
            "webhookUrl" \in DOMAIN data']_vars

----------------------------------------------------------------------------
(* Properties of extractTasks *)

MarkerPositions(text) == {k \in DOMAIN text : text[k] \in Markers}

\* the k-th marker of the text, in document order
RECURSIVE NthMarker(_, _)
NthMarker(text, k) ==
    IF k = 1 THEN Min(MarkerPositions(text))
    ELSE Min({m \in MarkerPositions(text) : m > NthMarker(text, k - 1)})

Max(S) == CHOOSE x \in S : \A y \in S : y <= x

\* the text between the previous marker (or the start) and the marker at m
SpanBefore(text, m) ==
    SubSeq(text, Max({0} \cup {j \in MarkerPositions(text) : j < m}) + 1, m - 1)

\* the text on the marker's own line between the previous marker and m
LineBefore(text, m) ==
    SubSeq(text,
           Max({0} \cup {j \in 1..(m - 1) :
                            text[j] \in Markers \/ text[j] \in LineTerminators}) + 1,
           m - 1)

\* C8 (as stated): one task per marker in document order, and each task's
\* content is all text from the end of the previous marker (or the start of
\* the document) up to the marker, over several lines too, trimmed and with
\* the unchecked prefix removed.
C8_ContentSinceMarker ==
    parseDone =>
        /\ Len(parseOutput) = Cardinality(MarkerPositions(parseInput))
        /\ \A k \in DOMAIN parseOutput :
              /\ parseOutput[k].dueDateTime =
                     NewDate(parseInput[NthMarker(parseInput, k)])
              /\ parseOutput[k].content =
                     ReminderText(SpanBefore(parseInput, NthMarker(parseInput, k)))

\* C8 (amended): one task per marker in document order, and each task's
\* content is the text from the later of the end of the previous marker and
\* the last line terminator before the marker (or the start of the
\* document) up to the marker, trimmed and with the unchecked prefix
\* removed; it holds no text at or before the previous marker.
C8_ContentOnMarkerLine ==
    parseDone =>
        /\ Len(parseOutput) = Cardinality(MarkerPositions(parseInput))
        /\ \A k \in DOMAIN parseOutput :
              /\ parseOutput[k].dueDateTime =
                     NewDate(parseInput[NthMarker(parseInput, k)])
              /\ parseOutput[k].content =
                     ReminderText(LineBefore(parseInput, NthMarker(parseInput, k)))
              /\ \A c \in Range(parseOutput[k].content) : c \notin Markers

\* C8 witness: a parsed document in which a marker is preceded, since the
\* previous marker, by text on an earlier line that the task does not hold.
C8_Witness ==
    /\ parseDone
    /\ \E k \in DOMAIN parseOutput :
          /\ k > 1
          /\ Trim(SpanBefore(parseInput, NthMarker(parseInput, k)))
                # Trim(LineBefore(parseInput, NthMarker(parseInput, k)))

\* C9: when the trimmed text before the marker starts with the unchecked
\* prefix `- [ ]`, the content is that text without this one prefix,
\* trimmed; otherwise (checked prefix, prose) it is the trimmed text.
C9_StripUnchecked ==
    parseDone =>
        \A k \in DOMAIN parseOutput :
            LET g == Trim(LineBefore(parseInput, NthMarker(parseInput, k)))
            IN  IF StartsWith(g, UncheckedPrefix)
                THEN parseOutput[k].content =
                         Trim(SubSeq(g, Len(UncheckedPrefix) + 1, Len(g)))
                ELSE parseOutput[k].content = g

\* C9 witness: a parsed document with a task whose text starts with two
\* unchecked prefixes, of which the second is kept in the content.
C9_Witness ==
    /\ parseDone
    /\ \E k \in DOMAIN parseOutput :
          /\ StartsWith(Trim(LineBefore(parseInput, NthMarker(parseInput, k))),
                        UncheckedPrefix \o UncheckedPrefix)
          /\ StartsWith(parseOutput[k].content, UncheckedPrefix)

====
